---- MODULE Spec2Model ----
(***************************************************************************)
(* satgalaxy-cli: the session layer around the SAT engine.                 *)
(*                                                                         *)
(*   Spec       one run of a solver subcommand (glucose.rs / minisat.rs    *)
(*              Arg::run under main.rs), interleaved with the ctrlc        *)
(*              handler thread and the SIGINT the environment may deliver  *)
(*   SpecStat   any sequence of method calls on one core::Stat             *)
(*   SpecLimit  any sequence of utils::limit_time / limit_memory calls     *)
(*   SpecReader any sequence of read / seek calls on one parser::StdinReader*)
(*   SpecPath   parse_path on any argument string as the file system changes*)
(***************************************************************************)
EXTENDS Integers, Sequences, FiniteSets, TLC

\* ------------------------------------------------------------------ bounds
MaxClock == 1
\* the platform's limits range over 0..MaxRlim, requested ceilings over 0..MaxReq
MaxRlim == 2
MaxReq == 3
\* declared variables of the parsed formula
MaxVars == 2
\* SIGINTs the environment delivers in one run
MaxInterrupts == 1
\* bytes the console delivers before end of stream; buf.len() of a read call
MaxStream == 3
MaxBuf == 2
\* width of the signed offset of SeekFrom::Current / End (i64, scaled down)
IntBits == 4
\* characters of the string handed to parse_path
MaxPathLen == 3

VARIABLES
    \* ---- the process
    cmd,        \* the subcommand: "glucose" | "minisat"
    arg,        \* the Arg the subcommand was parsed into (immutable)
    pc,         \* position of the main thread
    result,     \* what Arg::run handed to main: [kind, code]
    exit_code,  \* -1 while the process runs, then its exit code
    endedBy,    \* what ended the process: "none" | "main" | "panic" | "handler" | "signal"
    \* ---- Arc<Mutex<Stat>>
    stat,       \* the Stat
    strong,     \* strong count of the Arc (0: not created, or dropped)
    mutex,      \* holder of the Mutex: "none" | "main" | "handler"
    \* ---- ctrlc thread
    hpc,        \* "none" (no handler installed) | "wait" | "run" | "locked" | "printed"
    hret,       \* what stat.print() returned to the handler
    interrupts, \* SIGINTs delivered so far
    sigSolve,   \* a SIGINT was delivered while the engine's solve call was in flight
    \* ---- outside world
    clock,      \* CPU / wall time
    console,    \* lines written to stdout / stderr, in order
    out,        \* tokens written through the OUTPUT Writer, in order
    outOpen,    \* "none" | "file" | "stdout": what `output` is bound to
    calls,      \* engine calls made so far, in order
    engine,     \* what the engine answered: [accepted, okay, nvars, model, ret]
    rlim,       \* the platform's limits: resource -> [cur, max]
    platform,   \* "unix" | "windows" (cfg of utils/mod.rs)
    \* ---- call sequences of SpecStat / SpecLimit
    lastOp,     \* the call just made ("tick": time passed instead)
    lastArg,    \* its argument
    lastRes,    \* what it returned
    lastSys,    \* the platform calls it made, in order
    \* ---- parser::StdinReader and the console behind it
    profile,    \* "debug" | "release": whether the build checks integer overflow
    inner,      \* the OS standard input: [data: all it will deliver, at: bytes drawn]
    buffer,     \* StdinReader.buffer
    pos,        \* StdinReader.pos
    rret,       \* the reader call just made and what it returned
    replay,     \* what the reads returned since the cursor was last set: [from,
                \* data, buffered: how many of them came from the buffer, eof]
    \* ---- parse_path and the file system it looks at
    fs,         \* the strings that name an existing path
    pcall       \* the parse_path call just made: [op, s, res]

procVars == <<cmd, arg, pc, result, exit_code, endedBy>>
arcVars == <<stat, strong, mutex>>
hVars == <<hpc, hret, interrupts, sigSolve>>
ioVars == <<console, out, outOpen>>
engVars == <<calls, engine>>
callVars == <<lastOp, lastArg, lastRes, lastSys>>
rdVars == <<profile, inner, buffer, pos, rret, replay>>
pathVars == <<fs, pcall>>
vars == <<cmd, arg, pc, result, exit_code, endedBy, stat, strong, mutex, hpc, hret,
          interrupts, sigSolve, clock, console, out, outOpen, calls, engine,
          rlim, platform, lastOp, lastArg, lastRes, lastSys,
          profile, inner, buffer, pos, rret, replay, fs, pcall>>

\* ------------------------------------------------------------ Option<T>
None == [some |-> FALSE, v |-> 0]
Some(x) == [some |-> TRUE, v |-> x]

\* ------------------------------------------------------------ core::Stat
\* one println!/eprintln! line: channel, the "c " prefix (or none), text, value
Line(ch, prefix, text, val) == [ch |-> ch, prefix |-> prefix, text |-> text, val |-> val]

\* Stat::new
StatNew(now) ==
    [run_time |-> now, total_time |-> now, least_time |-> now, printed |-> FALSE,
     parsed_time |-> None, simplified_time |-> None, solve_time |-> None]

\* Stat::start_log
StatStartLog(s, now) == [s EXCEPT !.total_time = now, !.least_time = now]

\* Stat::parsed
StatParsed(s, now) ==
    [s EXCEPT !.parsed_time = Some(now - s.least_time), !.least_time = now]

\* Stat::simplified
StatSimplified(s, now) ==
    [s EXCEPT !.simplified_time = Some(now - s.least_time), !.least_time = now]

\* Stat::solved
StatSolved(s, now) ==
    [s EXCEPT !.solve_time = Some(now - s.least_time), !.least_time = now]

\* Option::map(|v| println!(...)): the line when the option is Some
OptLine(ch, text, opt) ==
    IF opt.some THEN <<Line(ch, "c ", text, opt.v)>> ELSE <<>>

\* a print that stamps the solve phase while it prints
StatPrint_StampsSolve(s, now, mem, ch) ==
    IF s.printed
    THEN [stat |-> s, lines |-> <<>>, ret |-> FALSE]
    ELSE [stat |-> [s EXCEPT !.printed = TRUE, !.solve_time = Some(now - s.least_time)],
          lines |-> <<Line(ch, "c ", "Total time:", now - s.total_time)>>,
          ret |-> TRUE]

\* a print that forgets to set the latch
StatPrint_NoLatch(s, now, mem, ch) ==
    IF s.printed
    THEN [stat |-> s, lines |-> <<>>, ret |-> FALSE]
    ELSE [stat |-> s,
          lines |-> OptLine(ch, "Parse time:", s.parsed_time)
                    \o <<Line(ch, "c ", "Total time:", now - s.total_time)>>,
          ret |-> TRUE]

\* Stat::print; mem is what utils::get_memory() returned, ch the channel the
\* copy of Stat writes to (core.rs: stdout, minisat.rs: stderr)
StatPrint(s, now, mem, ch) ==
    IF s.printed
    THEN [stat |-> s, lines |-> <<>>, ret |-> FALSE]
    ELSE [stat |-> [s EXCEPT !.printed = TRUE],
          lines |-> OptLine(ch, "Parse time:", s.parsed_time)
                    \o OptLine(ch, "Simplification time:", s.simplified_time)
                    \o OptLine(ch, "Solve time:", s.solve_time)
                    \o <<Line(ch, "c ", "Total time:", now - s.total_time)>>
                    \o <<Line(ch, "c ", "Run time:", now - s.run_time)>>
                    \o OptLine(ch, "Memory:", mem),
          ret |-> TRUE]

\* utils::get_memory: the resident size when sysinfo finds the process
MemorySamples == {None, Some(1)}

\* what get_memory answers in a run: sysinfo finds the process it runs in
MemoryOfRun == {Some(1)}

\* statistics blocks on the console (every block has one "Total time:" line)
StatsBlocks == Cardinality({i \in DOMAIN console : console[i].text = "Total time:"})

\* "c Interrupted" annotations on the console
Annotations == Cardinality({i \in DOMAIN console : console[i].text = "Interrupted"})

\* ------------------------------------------------- utils::limit_time/memory
Resources == {"CPU", "AS"}

\* rlimit::setrlimit as the kernel answers it: EINVAL when soft > hard, EPERM
\* when an unprivileged process raises the hard limit
Setrlimit(lims, res, cur, max) ==
    IF cur > max \/ max > lims[res].max
    THEN [ok |-> FALSE, rlim |-> lims]
    ELSE [ok |-> TRUE, rlim |-> [lims EXCEPT ![res] = [cur |-> cur, max |-> max]]]

\* a limit_time that installs a request above the soft limit instead of
\* rejecting it
limit_time_unix_Raise(lims, max_cpu_time) ==
    IF max_cpu_time = 0
    THEN [ret |-> "Ok", rlim |-> lims, sys |-> <<>>]
    ELSE LET r == Setrlimit(lims, "CPU", max_cpu_time, lims["CPU"].max)
         IN [ret |-> IF r.ok THEN "Ok" ELSE "Err", rlim |-> r.rlim,
             sys |-> <<"getrlimit", "setrlimit">>]

\* a limit_time that reads the platform limit before looking at the request
limit_time_unix_ReadFirst(lims, max_cpu_time) ==
    IF max_cpu_time = 0
    THEN [ret |-> "Ok", rlim |-> lims, sys |-> <<"getrlimit">>]
    ELSE IF lims["CPU"].cur < max_cpu_time
    THEN [ret |-> "Err", rlim |-> lims, sys |-> <<"getrlimit">>]
    ELSE LET r == Setrlimit(lims, "CPU", max_cpu_time, lims["CPU"].max)
         IN [ret |-> IF r.ok THEN "Ok" ELSE "Err", rlim |-> r.rlim,
             sys |-> <<"getrlimit", "setrlimit">>]

\* a limit_time that installs the request as soft and as hard limit
limit_time_unix_Hard(lims, max_cpu_time) ==
    IF max_cpu_time = 0
    THEN [ret |-> "Ok", rlim |-> lims, sys |-> <<>>]
    ELSE IF lims["CPU"].cur < max_cpu_time
    THEN [ret |-> "Err", rlim |-> lims, sys |-> <<"getrlimit">>]
    ELSE LET r == Setrlimit(lims, "CPU", max_cpu_time, max_cpu_time)
         IN [ret |-> IF r.ok THEN "Ok" ELSE "Err", rlim |-> r.rlim,
             sys |-> <<"getrlimit", "setrlimit">>]

\* unix.rs limit_time: [ret, rlim after, platform calls made]
limit_time_unix(lims, max_cpu_time) ==
    IF max_cpu_time = 0
    THEN [ret |-> "Ok", rlim |-> lims, sys |-> <<>>]
    ELSE LET rlim_cur == lims["CPU"].cur
             rlim_max == lims["CPU"].max
         IN IF rlim_cur < max_cpu_time
            THEN [ret |-> "Err", rlim |-> lims, sys |-> <<"getrlimit">>]
            ELSE LET r == Setrlimit(lims, "CPU", max_cpu_time, rlim_max)
                 IN [ret |-> IF r.ok THEN "Ok" ELSE "Err", rlim |-> r.rlim,
                     sys |-> <<"getrlimit", "setrlimit">>]

\* a limit_memory that compares the request with the hard limit, so that a
\* request between the soft and the hard limit loosens the soft limit
limit_memory_unix_Loosen(lims, max_memory) ==
    IF max_memory = 0
    THEN [ret |-> "Ok", rlim |-> lims, sys |-> <<>>]
    ELSE IF lims["AS"].max < max_memory
    THEN [ret |-> "Err", rlim |-> lims, sys |-> <<"getrlimit">>]
    ELSE LET r == Setrlimit(lims, "AS", max_memory, lims["AS"].max)
         IN [ret |-> IF r.ok THEN "Ok" ELSE "Err", rlim |-> r.rlim,
             sys |-> <<"getrlimit", "setrlimit">>]

\* unix.rs limit_memory
limit_memory_unix(lims, max_memory) ==
    IF max_memory = 0
    THEN [ret |-> "Ok", rlim |-> lims, sys |-> <<>>]
    ELSE LET rlim_cur == lims["AS"].cur
             rlim_max == lims["AS"].max
         IN IF rlim_cur < max_memory
            THEN [ret |-> "Err", rlim |-> lims, sys |-> <<"getrlimit">>]
            ELSE LET r == Setrlimit(lims, "AS", max_memory, rlim_max)
                 IN [ret |-> IF r.ok THEN "Ok" ELSE "Err", rlim |-> r.rlim,
                     sys |-> <<"getrlimit", "setrlimit">>]

\* windows.rs limit_time: 0 is Ok; otherwise the "not supported on Windows"
\* error is all the body builds
limit_time_windows(lims, max_cpu_time) ==
    IF max_cpu_time = 0
    THEN [ret |-> "Ok", rlim |-> lims, sys |-> <<>>]
    ELSE [ret |-> "Err", rlim |-> lims, sys |-> <<>>]

\* windows.rs limit_memory
limit_memory_windows(lims, max_memory) ==
    IF max_memory = 0
    THEN [ret |-> "Ok", rlim |-> lims, sys |-> <<>>]
    ELSE [ret |-> "Err", rlim |-> lims, sys |-> <<>>]

\* utils/mod.rs: the platform module the build selects
limit_time(plat, lims, v) ==
    IF plat = "unix" THEN limit_time_unix(lims, v) ELSE limit_time_windows(lims, v)

limit_memory(plat, lims, v) ==
    IF plat = "unix" THEN limit_memory_unix(lims, v) ELSE limit_memory_windows(lims, v)

\* soft/hard pairs the platform can hold
RlimPairs == {p \in [cur : 0..MaxRlim, max : 0..MaxRlim] : p.cur <= p.max}

\* ---------------------------------------------------- parser::StdinReader
Bytes == {"a", "b"}

\* what the console can deliver before end of stream
Streams == UNION {[1..n -> Bytes] : n \in 0..MaxStream}

Min(a, b) == IF a < b THEN a ELSE b

\* i64 at the model's width, and `+` on it when the build does not check
\* overflow
I64Max == 2^(IntBits - 1) - 1
I64Min == 0 - 2^(IntBits - 1)
WrapI64(x) == ((x - I64Min) % 2^IntBits) + I64Min

\* StdinReader::new
StdinReaderNew == [buffer |-> <<>>, pos |-> 0]

\* what Stdin::read(buf) can answer for a buf of len bytes: an io::Error, or
\* Ok(k) with k bytes placed in buf; Ok(0) only for an empty buf or at end of
\* stream
InnerReads(in, len) ==
    LET rest == Len(in.data) - in.at
    IN {[ok |-> FALSE, n |-> 0]} \cup
       {[ok |-> TRUE, n |-> k] :
           k \in (IF len = 0 \/ rest = 0 THEN {0} ELSE 1..Min(len, rest))}

\* a read that serves buffered bytes from the start of the buffer, not from
\* the cursor
StdinReaderRead_FromStart(in, bf, ps, len, got) ==
    IF ps < Len(bf)
    THEN LET bytes_to_read == Min(len, Len(bf) - ps)
         IN [ret |-> "Ok", n |-> bytes_to_read, data |-> SubSeq(bf, 1, bytes_to_read),
             buffer |-> bf, pos |-> ps + bytes_to_read, inner |-> in, pulled |-> FALSE]
    ELSE IF ~got.ok
    THEN [ret |-> "Io", n |-> 0, data |-> <<>>, buffer |-> bf, pos |-> ps,
          inner |-> in, pulled |-> TRUE]
    ELSE LET bytes == SubSeq(in.data, in.at + 1, in.at + got.n)
         IN [ret |-> "Ok", n |-> got.n, data |-> bytes, buffer |-> bf \o bytes,
             pos |-> ps + got.n, inner |-> [in EXCEPT !.at = @ + got.n],
             pulled |-> TRUE]

\* a read that keeps only the bytes of the latest pull in the buffer
StdinReaderRead_Overwrite(in, bf, ps, len, got) ==
    IF ps < Len(bf)
    THEN LET bytes_to_read == Min(len, Len(bf) - ps)
         IN [ret |-> "Ok", n |-> bytes_to_read,
             data |-> SubSeq(bf, ps + 1, ps + bytes_to_read),
             buffer |-> bf, pos |-> ps + bytes_to_read, inner |-> in, pulled |-> FALSE]
    ELSE IF ~got.ok
    THEN [ret |-> "Io", n |-> 0, data |-> <<>>, buffer |-> bf, pos |-> ps,
          inner |-> in, pulled |-> TRUE]
    ELSE LET bytes == SubSeq(in.data, in.at + 1, in.at + got.n)
         IN [ret |-> "Ok", n |-> got.n, data |-> bytes, buffer |-> bytes,
             pos |-> got.n, inner |-> [in EXCEPT !.at = @ + got.n],
             pulled |-> TRUE]

\* impl Read for StdinReader, read(buf) with buf.len() = len; got is what
\* self.inner.read(buf) answers when the call gets that far.
\* [ret, n, data placed in buf, buffer, pos, inner after, inner was read]
StdinReaderRead(in, bf, ps, len, got) ==
    LET buffer_len == Len(bf)
    IN IF ps < buffer_len
       THEN LET bytes_to_read == Min(len, buffer_len - ps)
            IN [ret |-> "Ok", n |-> bytes_to_read,
                data |-> SubSeq(bf, ps + 1, ps + bytes_to_read),
                buffer |-> bf, pos |-> ps + bytes_to_read, inner |-> in,
                pulled |-> FALSE]
       ELSE IF ~got.ok
       THEN [ret |-> "Io", n |-> 0, data |-> <<>>, buffer |-> bf, pos |-> ps,
             inner |-> in, pulled |-> TRUE]
       ELSE LET bytes_read == got.n
                bytes == SubSeq(in.data, in.at + 1, in.at + bytes_read)
            IN [ret |-> "Ok", n |-> bytes_read, data |-> bytes,
                buffer |-> bf \o bytes, pos |-> ps + bytes_read,
                inner |-> [in EXCEPT !.at = @ + bytes_read], pulled |-> TRUE]

\* the SeekFrom values a caller passes
SeekFroms ==
    {[whence |-> "Start", offset |-> o] : o \in 0..(MaxStream + 1)} \cup
    {[whence |-> w, offset |-> o] :
        w \in {"Current", "End"},
        o \in ((0 - MaxBuf)..MaxBuf) \cup {I64Min, I64Max}}

\* a seek without the "Cannot seek beyond buffered data" check
StdinReaderSeek_NoBound(bf, ps, from, checks) ==
    CASE from.whence = "Start" ->
            [ret |-> "Ok", pos |-> from.offset, val |-> from.offset]
      [] from.whence = "End" -> [ret |-> "InvalidInput", pos |-> ps, val |-> 0]
      [] from.whence = "Current" ->
            IF ps + from.offset < 0 \/ ps + from.offset > I64Max
            THEN [ret |-> "InvalidInput", pos |-> ps, val |-> 0]
            ELSE [ret |-> "Ok", pos |-> ps + from.offset, val |-> ps + from.offset]

\* a seek that stores the new position before it checks it against the buffer
StdinReaderSeek_MovesFirst(bf, ps, from, checks) ==
    CASE from.whence = "Start" ->
            [ret |-> IF from.offset > Len(bf) THEN "InvalidInput" ELSE "Ok",
             pos |-> from.offset, val |-> from.offset]
      [] from.whence = "End" -> [ret |-> "InvalidInput", pos |-> ps, val |-> 0]
      [] from.whence = "Current" ->
            IF ps + from.offset < 0 \/ ps + from.offset > I64Max
            THEN [ret |-> "InvalidInput", pos |-> ps, val |-> 0]
            ELSE [ret |-> IF ps + from.offset > Len(bf) THEN "InvalidInput" ELSE "Ok",
                  pos |-> ps + from.offset, val |-> ps + from.offset]

\* impl Seek for StdinReader, seek(from); checks: the build panics on integer
\* overflow (debug) instead of wrapping (release).  [ret, pos after, Ok value]
StdinReaderSeek(bf, ps, from, checks) ==
    LET fail(r) == [ret |-> r, pos |-> ps, val |-> 0]
        bounded(new_pos) ==
            IF new_pos > Len(bf)
            THEN fail("InvalidInput")
            ELSE [ret |-> "Ok", pos |-> new_pos, val |-> new_pos]
    IN CASE from.whence = "Start" -> bounded(from.offset)
         [] from.whence = "End" -> fail("InvalidInput")
         [] from.whence = "Current" ->
              LET sum == ps + from.offset
                  overflow == sum > I64Max \/ sum < I64Min
                  new_pos == IF overflow THEN WrapI64(sum) ELSE sum
              IN IF overflow /\ checks THEN fail("Panic")
                 ELSE IF new_pos < 0 THEN fail("InvalidInput")
                 ELSE bounded(new_pos)

\* the record of a reader call
Rret(op, whence, a, ret, val, data, pulled) ==
    [op |-> op, whence |-> whence, arg |-> a, ret |-> ret, val |-> val,
     data |-> data, pulled |-> pulled]

RretNew == Rret("new", "none", 0, "Ok", 0, <<>>, FALSE)
ReplayNew == [from |-> 0, data |-> <<>>, buffered |-> 0, eof |-> FALSE]

\* no StdinReader is in use
NoReader ==
    /\ profile = "release" /\ inner = [data |-> <<>>, at |-> 0]
    /\ buffer = StdinReaderNew.buffer /\ pos = StdinReaderNew.pos
    /\ rret = RretNew /\ replay = ReplayNew

\* ------------------------------------------------------ core::parse_path
\* argument strings: sequences of letters and ':'
PathChars == {"h", "a", ":"}
PathStrings == UNION {[1..n -> PathChars] : n \in 0..MaxPathLen}

\* strings that may name a file: a plain name and one with a ':' in it
PathNames == {<<"a">>, <<"a", "a">>, <<"h", ":", "a">>}

\* index of the first ':' of s, 0 when it has none
FirstColon(s) ==
    IF \E i \in DOMAIN s : s[i] = ":"
    THEN CHOOSE i \in DOMAIN s : s[i] = ":" /\ \A j \in 1..(i - 1) : s[j] # ":"
    ELSE 0

\* url::Url::parse(s): an absolute URL starts with a scheme, one or more
\* letters up to the first ':'; anything else is a relative URL without a base
UrlParse(s) ==
    LET c == FirstColon(s)
    IN IF c >= 2
       THEN [ok |-> TRUE,
             url |-> [scheme |-> SubSeq(s, 1, c - 1), rest |-> SubSeq(s, c + 1, Len(s))]]
       ELSE [ok |-> FALSE, url |-> [scheme |-> <<>>, rest |-> <<>>]]

\* Result<SmartPath, String>
SmartPathUrl(u) == [kind |-> "Url", url |-> u, path |-> <<>>, msg |-> <<>>]
SmartPathFile(path) ==
    [kind |-> "FilePath", url |-> [scheme |-> <<>>, rest |-> <<>>], path |-> path,
     msg |-> <<>>]
PathErr(msg) ==
    [kind |-> "Err", url |-> [scheme |-> <<>>, rest |-> <<>>], path |-> <<>>,
     msg |-> msg]

\* format!("`{s}` is not a valid URL or file path"), the backtick written
\* as a token of its own
NotValid(s) == <<"backtick">> \o s \o <<"backtick", " is not a valid URL or file path">>

\* a parse_path that looks for the file before it tries the URL
parse_path_FileFirst(s, files) ==
    IF s \in files
    THEN SmartPathFile(s)
    ELSE IF UrlParse(s).ok
    THEN SmartPathUrl(UrlParse(s).url)
    ELSE PathErr(NotValid(s))

\* core.rs / parser.rs parse_path; files: the paths that exist now
parse_path(s, files) ==
    LET u == UrlParse(s)
    IN IF u.ok
       THEN SmartPathUrl(u.url)
       ELSE LET path == s
            IN IF path \in files
               THEN SmartPathFile(path)
               ELSE PathErr(NotValid(s))

PcallNew == [op |-> "none", s |-> <<>>, res |-> PathErr(<<>>)]

\* no parse_path call is looked at
NoPath == fs = {} /\ pcall = PcallNew

\* --------------------------------------------------------- the Arg record
\* Arg (glucose.rs 17..289, minisat.rs 22..137), the fields run reads: verb
\* stands for the range-validated tuning flags
ArgOf(verb, output, input, pre, solve, cpu_lim, mem_lim) ==
    [verb |-> verb, output |-> output, input |-> input, pre |-> pre,
     solve |-> solve, cpu_lim |-> cpu_lim, mem_lim |-> mem_lim]

\* clap's defaults
ArgDefault == ArgOf(0, "none", "stdin", TRUE, TRUE, 0, 0)

EngineFresh ==
    [accepted |-> FALSE, okay |-> TRUE, nvars |-> 0, model |-> <<>>, ret |-> "Unknown"]

RlimDefault == [r \in Resources |-> [cur |-> MaxRlim, max |-> MaxRlim]]

\* no subcommand is running: what SpecStat and SpecLimit hold fixed
NoSession ==
    /\ cmd = "none" /\ arg = ArgDefault /\ pc = "idle"
    /\ result = [kind |-> "none", code |-> 0, why |-> "none"] /\ exit_code = -1
    /\ endedBy = "none"
    /\ mutex = "none"
    /\ hpc = "none" /\ hret = FALSE /\ interrupts = 0 /\ sigSolve = FALSE
    /\ out = <<>> /\ outOpen = "none"
    /\ calls = <<>> /\ engine = EngineFresh

\* ------------------------------------------------------------- SpecStat
\* one Stat, any sequence of calls of its methods as time passes
InitStat ==
    /\ NoSession
    /\ clock = 0 /\ stat = StatNew(0) /\ strong = 1 /\ console = <<>>
    /\ rlim = RlimDefault /\ platform = "unix"
    /\ lastOp = "new" /\ lastArg = 0 /\ lastRes = "none" /\ lastSys = <<>>
    /\ NoReader /\ NoPath

StatCallFrame ==
    UNCHANGED <<procVars, strong, mutex, hVars, out, outOpen, engVars, rlim,
                platform, lastArg, lastSys, rdVars, pathVars>>

TickStat ==
    /\ clock < MaxClock
    /\ clock' = clock + 1
    /\ lastOp' = "tick" /\ lastRes' = "none"
    /\ UNCHANGED <<stat, console>> /\ StatCallFrame

CallStartLog ==
    /\ stat' = StatStartLog(stat, clock)
    /\ lastOp' = "start_log" /\ lastRes' = "none"
    /\ UNCHANGED <<clock, console>> /\ StatCallFrame

CallParsed ==
    /\ stat' = StatParsed(stat, clock)
    /\ lastOp' = "parsed" /\ lastRes' = "none"
    /\ UNCHANGED <<clock, console>> /\ StatCallFrame

CallSimplified ==
    /\ stat' = StatSimplified(stat, clock)
    /\ lastOp' = "simplified" /\ lastRes' = "none"
    /\ UNCHANGED <<clock, console>> /\ StatCallFrame

CallSolved ==
    /\ stat' = StatSolved(stat, clock)
    /\ lastOp' = "solved" /\ lastRes' = "none"
    /\ UNCHANGED <<clock, console>> /\ StatCallFrame

CallPrint ==
    \E mem \in MemorySamples :
        LET r == StatPrint(stat, clock, mem, "stdout")
        IN /\ stat' = r.stat
           /\ console' = console \o r.lines
           /\ lastOp' = "print"
           /\ lastRes' = IF r.ret THEN "printed_now" ELSE "already_printed"
           /\ UNCHANGED clock /\ StatCallFrame

NextStat ==
    \/ TickStat
    \/ CallStartLog
    \/ CallParsed
    \/ CallSimplified
    \/ CallSolved
    \/ CallPrint

SpecStat == InitStat /\ [][NextStat]_vars

\* ------------------------------------------------------------ SpecLimit
\* any sequence of limit_time / limit_memory calls on any platform state
InitLimit ==
    /\ NoSession
    /\ clock = 0 /\ stat = StatNew(0) /\ strong = 0 /\ console = <<>>
    /\ rlim \in [Resources -> RlimPairs]
    /\ platform \in {"unix", "windows"}
    /\ lastOp = "none" /\ lastArg = 0 /\ lastRes = "none" /\ lastSys = <<>>
    /\ NoReader /\ NoPath

LimitCallFrame ==
    UNCHANGED <<procVars, arcVars, hVars, clock, ioVars, engVars, platform, rdVars,
                pathVars>>

CallLimitTime ==
    \E v \in 0..MaxReq :
        LET r == limit_time(platform, rlim, v)
        IN /\ rlim' = r.rlim
           /\ lastOp' = "limit_time" /\ lastArg' = v
           /\ lastRes' = r.ret /\ lastSys' = r.sys
           /\ LimitCallFrame

CallLimitMemory ==
    \E v \in 0..MaxReq :
        LET r == limit_memory(platform, rlim, v)
        IN /\ rlim' = r.rlim
           /\ lastOp' = "limit_memory" /\ lastArg' = v
           /\ lastRes' = r.ret /\ lastSys' = r.sys
           /\ LimitCallFrame

NextLimit ==
    \/ CallLimitTime
    \/ CallLimitMemory

SpecLimit == InitLimit /\ [][NextLimit]_vars

\* ----------------------------------------------------------- SpecReader
\* one StdinReader over a console that delivers any stream, any sequence of
\* read and seek calls
InitReader ==
    /\ NoSession
    /\ clock = 0 /\ stat = StatNew(0) /\ strong = 0 /\ console = <<>>
    /\ rlim = RlimDefault /\ platform = "unix"
    /\ lastOp = "none" /\ lastArg = 0 /\ lastRes = "none" /\ lastSys = <<>>
    /\ profile \in {"debug", "release"}
    /\ inner \in [data : Streams, at : {0}]
    /\ buffer = StdinReaderNew.buffer /\ pos = StdinReaderNew.pos
    /\ rret = RretNew /\ replay = ReplayNew
    /\ NoPath

ReaderCallFrame ==
    UNCHANGED <<procVars, arcVars, hVars, clock, ioVars, engVars, rlim, platform,
                callVars, profile, pathVars>>

CallRead ==
    \E len \in 0..MaxBuf : \E got \in InnerReads(inner, len) :
        LET r == StdinReaderRead(inner, buffer, pos, len, got)
        IN /\ inner' = r.inner /\ buffer' = r.buffer /\ pos' = r.pos
           /\ rret' = Rret("read", "none", len, r.ret, r.n, r.data, r.pulled)
           /\ replay' = IF r.ret = "Ok"
                         THEN [replay EXCEPT
                                  !.data = @ \o r.data,
                                  !.buffered = @ + (IF r.pulled THEN 0 ELSE r.n),
                                  !.eof = (len > 0 /\ r.n = 0)]
                         ELSE replay
           /\ ReaderCallFrame

CallSeek ==
    \E from \in SeekFroms :
        LET r == StdinReaderSeek(buffer, pos, from, profile = "debug")
        IN /\ pos' = r.pos
           /\ rret' = Rret("seek", from.whence, from.offset, r.ret, r.val, <<>>, FALSE)
           /\ replay' = IF r.ret = "Ok"
                         THEN [ReplayNew EXCEPT !.from = r.pos]
                         ELSE replay
           /\ UNCHANGED <<inner, buffer>>
           /\ ReaderCallFrame

NextReader ==
    \/ CallRead
    \/ CallSeek

SpecReader == InitReader /\ [][NextReader]_vars

\* ------------------------------------------------------------- SpecPath
\* parse_path called on any string while files come and go
InitPath ==
    /\ NoSession
    /\ clock = 0 /\ stat = StatNew(0) /\ strong = 0 /\ console = <<>>
    /\ rlim = RlimDefault /\ platform = "unix"
    /\ lastOp = "none" /\ lastArg = 0 /\ lastRes = "none" /\ lastSys = <<>>
    /\ NoReader
    /\ fs \in SUBSET PathNames
    /\ pcall = PcallNew

PathCallFrame ==
    UNCHANGED <<procVars, arcVars, hVars, clock, ioVars, engVars, rlim, platform,
                callVars, rdVars>>

CallParsePath ==
    \E s \in PathStrings :
        /\ pcall' = [op |-> "parse_path", s |-> s, res |-> parse_path(s, fs)]
        /\ UNCHANGED fs
        /\ PathCallFrame

\* a file is created or removed between two calls
FsChange ==
    \E name \in PathNames :
        /\ fs' = IF name \in fs THEN fs \ {name} ELSE fs \cup {name}
        /\ pcall' = [pcall EXCEPT !.op = "fs"]
        /\ PathCallFrame

NextPath ==
    \/ CallParsePath
    \/ FsChange

SpecPath == InitPath /\ [][NextPath]_vars

\* ----------------------------------------------------------------- Spec
\* One process: main.rs main -> Arg::run of the subcommand, the ctrlc thread
\* running the handler closure, and the environment (SIGINT, the engine's
\* answers, I/O failures).

\* #[validate(range(min = 0, max = 2))] on verb (glucose.rs 262, minisat.rs 111)
VerbMin == 0
VerbMax == 2

\* Validate::validate on Arg
Validate(a) == VerbMin <= a.verb /\ a.verb <= VerbMax

\* exit codes
ExitSat == 0
ExitUnsat == 20
ExitUnknown == 30
ExitInterrupted == 30
\* a Rust process that panics on its main thread
ExitPanic == 101
\* main returning ()
ExitMainReturned == 0

\* solver::RawStatus, and what Default::default() gives for it
RawStatus == {"Satisfiable", "Unsatisfiable", "Unknown"}
DefaultStatus == "Unknown"

\* <<cpu_lim, mem_lim>> a run is started with: 0 is no ceiling, 1 one the
\* platform accepts, MaxReq one above the platform's soft limit
LimChoices == {<<0, 0>>, <<1, 1>>, <<MaxReq, 1>>, <<1, MaxReq>>}

Args ==
    {ArgOf(verb, o, i, pre, solve, lim[1], lim[2]) :
        verb \in {VerbMin, VerbMax + 1}, o \in {"none", "file"},
        i \in {"stdin", "file", "url"}, pre \in BOOLEAN, solve \in BOOLEAN,
        lim \in LimChoices}

\* the channel the subcommand's copy of Stat prints to (core.rs println!,
\* minisat.rs eprintln!)
StatChannel(c) == IF c = "minisat" THEN "stderr" ELSE "stdout"

\* one write!/writeln! through the OUTPUT Writer
Tok(text, val, nl) == [text |-> text, val |-> val, nl |-> nl]

Ok(code) == [kind |-> "Ok", code |-> code, why |-> "none"]
\* an anyhow::Error, tagged with the statement that raised it
Err(why) == [kind |-> "Err", code |-> 0, why |-> why]
\* an unwrap() that panicked
Panic(why) == [kind |-> "Panic", code |-> 0, why |-> why]

Init ==
    /\ cmd \in {"glucose", "minisat"}
    /\ arg \in Args
    /\ cmd = "minisat" => arg.input # "url"
    /\ pc = "start"
    /\ result = [kind |-> "none", code |-> 0, why |-> "none"]
    /\ exit_code = -1 /\ endedBy = "none"
    /\ stat = StatNew(0) /\ strong = 0 /\ mutex = "none"
    /\ hpc = "none" /\ hret = FALSE /\ interrupts = 0 /\ sigSolve = FALSE
    /\ clock = 0 /\ console = <<>> /\ out = <<>> /\ outOpen = "none"
    /\ calls = <<>> /\ engine = EngineFresh
    /\ rlim = RlimDefault /\ platform = "unix"
    /\ lastOp = "none" /\ lastArg = 0 /\ lastRes = "none" /\ lastSys = <<>>
    /\ NoReader /\ NoPath

Running == pc \notin {"idle", "done"}

\* what no step of a run touches
Fixed ==
    UNCHANGED <<cmd, arg, platform, lastOp, lastArg, lastRes, lastSys, rdVars, pathVars>>

\* dropping one owner of the Arc: Stat::drop runs when it was the last, and
\* prints the block and "c Interrupted" if print() printed now
DropArc(mem) ==
    IF strong = 1
    THEN LET r == StatPrint(stat, clock, mem, StatChannel(cmd))
         IN /\ strong' = 0
            /\ stat' = r.stat
            /\ console' = console \o r.lines \o
                  (IF r.ret THEN <<Line(StatChannel(cmd), "c ", "Interrupted", 0)>>
                   ELSE <<>>)
    ELSE /\ strong' = IF strong > 0 THEN strong - 1 ELSE 0
         /\ UNCHANGED <<stat, console>>

\* main.rs 27..31: dispatch on the subcommand; glucose's run starts with
\* self.validate()?, minisat's run has no validation
Start ==
    /\ pc = "start"
    /\ IF cmd = "glucose" /\ ~Validate(arg)
       THEN pc' = "drop" /\ result' = Err("validate")
       ELSE pc' = "stat_new" /\ UNCHANGED result
    /\ UNCHANGED <<exit_code, endedBy, arcVars, hVars, clock, ioVars, engVars, rlim>>
    /\ Fixed

\* let stat = Arc::new(Mutex::new(Stat::new()))
NewStat ==
    /\ pc = "stat_new"
    /\ stat' = StatNew(clock) /\ strong' = 1
    /\ pc' = "output"
    /\ UNCHANGED <<result, exit_code, endedBy, mutex, hVars, clock, ioVars, engVars, rlim>>
    /\ Fixed

\* the OUTPUT Writer: glucose File::create(p).unwrap() (core.rs 17..24),
\* minisat File::create(path)? (minisat.rs 260..264)
OpenOutput ==
    /\ pc = "output"
    /\ \/ /\ arg.output = "none"
          /\ outOpen' = "stdout" /\ pc' = "set_opt" /\ UNCHANGED result
       \/ /\ arg.output = "file"
          /\ outOpen' = "file" /\ pc' = "set_opt" /\ UNCHANGED result
       \/ /\ arg.output = "file"
          /\ UNCHANGED outOpen
          /\ IF cmd = "glucose"
             THEN pc' = "unwind" /\ result' = Panic("output")
             ELSE pc' = "drop" /\ result' = Err("output")
    /\ UNCHANGED <<exit_code, endedBy, arcVars, hVars, clock, console, out, engVars, rlim>>
    /\ Fixed

\* self.set_opt()
SetOpt ==
    /\ pc = "set_opt"
    /\ calls' = Append(calls, "set_opt")
    /\ pc' = "set_handler"
    /\ UNCHANGED <<result, exit_code, endedBy, arcVars, hVars, clock, ioVars, engine, rlim>>
    /\ Fixed

\* a run that goes on without installing the handler
SetHandler_NotArmed ==
    /\ pc = "set_handler"
    /\ pc' = "solver_new"
    /\ UNCHANGED <<result, exit_code, endedBy, arcVars, hVars, clock, ioVars, engVars, rlim>>
    /\ Fixed

\* let cloned_stat = stat.clone(); ctrlc::set_handler(move || ...)?
\* On success the ctrlc thread owns the closure, and with it the clone, for
\* the rest of the process; on failure the closure is dropped.
SetHandler ==
    /\ pc = "set_handler"
    /\ \/ /\ strong' = strong + 1
          /\ hpc' = "wait"
          /\ pc' = "solver_new" /\ UNCHANGED result
       \/ /\ UNCHANGED <<strong, hpc>>
          /\ pc' = "drop" /\ result' = Err("handler")
    /\ UNCHANGED <<exit_code, endedBy, stat, mutex, hret, interrupts, sigSolve, clock, ioVars,
                   engVars, rlim>>
    /\ Fixed

\* let mut solver = GlucoseSolver::new() / MinisatSolver::new()
NewSolver ==
    /\ pc = "solver_new"
    /\ calls' = Append(calls, "new")
    /\ pc' = "limit_time"
    /\ UNCHANGED <<result, exit_code, endedBy, arcVars, hVars, clock, ioVars, engine, rlim>>
    /\ Fixed

\* the "c WARNING: {}" line glucose's run prints for a limiter error;
\* minisat's run drops the Result
LimitWarning(r) ==
    IF cmd = "glucose" /\ r.ret = "Err"
    THEN <<Line("stdout", "c ", "WARNING:", 0)>>
    ELSE <<>>

\* utils::limit_time(self.cpu_lim as u64)
LimitTime ==
    /\ pc = "limit_time"
    /\ LET r == limit_time(platform, rlim, arg.cpu_lim)
       IN /\ rlim' = r.rlim
          /\ calls' = calls \o r.sys
          /\ console' = console \o LimitWarning(r)
    /\ pc' = "limit_memory"
    /\ UNCHANGED <<result, exit_code, endedBy, arcVars, hVars, clock, out, outOpen, engine>>
    /\ Fixed

\* utils::limit_memory(self.mem_lim as u64)
LimitMemory ==
    /\ pc = "limit_memory"
    /\ LET r == limit_memory(platform, rlim, arg.mem_lim)
       IN /\ rlim' = r.rlim
          /\ calls' = calls \o r.sys
          /\ console' = console \o LimitWarning(r)
    /\ pc' = "pre"
    /\ UNCHANGED <<result, exit_code, endedBy, arcVars, hVars, clock, out, outOpen, engine>>
    /\ Fixed

\* if !self.pre { solver.eliminate(true); }
Pre ==
    /\ pc = "pre"
    /\ calls' = IF arg.pre THEN calls ELSE Append(calls, "eliminate")
    /\ pc' = "lock_start_log"
    /\ UNCHANGED <<result, exit_code, endedBy, arcVars, hVars, clock, ioVars, engine, rlim>>
    /\ Fixed

\* the statements stat.lock().unwrap().m(): where main waits for the Mutex,
\* and where it is once it holds the guard
LockSites ==
    {"lock_start_log", "lock_parsed", "lock_simplified", "lock_print_unsat",
     "lock_solved", "lock_print"}

Locked(site) ==
    CASE site = "lock_start_log" -> "start_log"
      [] site = "lock_parsed" -> "parsed"
      [] site = "lock_simplified" -> "simplified"
      [] site = "lock_print_unsat" -> "print_unsat"
      [] site = "lock_solved" -> "solved"
      [] site = "lock_print" -> "print"

\* stat.lock().unwrap(): blocks until the Mutex is free
MainLock ==
    /\ pc \in LockSites
    /\ mutex = "none"
    /\ mutex' = "main"
    /\ pc' = Locked(pc)
    /\ UNCHANGED <<result, exit_code, endedBy, stat, strong, hVars, clock, ioVars, engVars, rlim>>
    /\ Fixed

\* a start_log whose guard outlives the statement
StartLog_KeepsGuard ==
    /\ pc = "start_log"
    /\ stat' = StatStartLog(stat, clock)
    /\ pc' = IF cmd = "glucose" THEN "open_input" ELSE "parse"
    /\ UNCHANGED <<result, exit_code, endedBy, strong, mutex, hVars, clock, ioVars, engVars, rlim>>
    /\ Fixed

\* .start_log(); the guard is dropped at the end of the statement
StartLog ==
    /\ pc = "start_log"
    /\ stat' = StatStartLog(stat, clock)
    /\ mutex' = "none"
    /\ pc' = IF cmd = "glucose" THEN "open_input" ELSE "parse"
    /\ UNCHANGED <<result, exit_code, endedBy, strong, hVars, clock, ioVars, engVars, rlim>>
    /\ Fixed

\* glucose.rs 399: let reader: SmartReader = self.input.as_ref().try_into()?
\* (core.rs 149..158: stdin always opens, File::open and reqwest::get may fail)
\* minisat.rs 281 opens the file inside read_dimacs_from_file(..).unwrap(),
\* which is Parse
OpenInput ==
    /\ pc = "open_input"
    /\ \/ pc' = "parse" /\ UNCHANGED result
       \/ /\ arg.input # "stdin"
          /\ pc' = "drop" /\ result' = Err("input")
    /\ UNCHANGED <<exit_code, endedBy, arcVars, hVars, clock, ioVars, engVars, rlim>>
    /\ Fixed

\* glucose.rs 400: read_dimacs_from_reader(reader, strictp, &mut solver)?
\* minisat.rs 281: read_dimacs_from_file(input, strictp, &mut solver).unwrap()
Parse ==
    /\ pc = "parse"
    /\ calls' = Append(calls, "parse")
    /\ \/ /\ engine' = [engine EXCEPT !.accepted = TRUE]
          /\ pc' = "lock_parsed" /\ UNCHANGED result
       \/ /\ UNCHANGED engine
          /\ IF cmd = "glucose"
             THEN pc' = "drop" /\ result' = Err("parse")
             ELSE pc' = "unwind" /\ result' = Panic("parse")
    /\ UNCHANGED <<exit_code, endedBy, arcVars, hVars, clock, ioVars, rlim>>
    /\ Fixed

\* .parsed()
Parsed ==
    /\ pc = "parsed"
    /\ stat' = StatParsed(stat, clock)
    /\ mutex' = "none"
    /\ pc' = "eliminate"
    /\ UNCHANGED <<result, exit_code, endedBy, strong, hVars, clock, ioVars, engVars, rlim>>
    /\ Fixed

\* an elimination pass that runs only when preprocessing is enabled
Eliminate_IfPre ==
    /\ pc = "eliminate"
    /\ calls' = IF arg.pre THEN Append(calls, "eliminate") ELSE calls
    /\ pc' = "lock_simplified"
    /\ UNCHANGED <<result, exit_code, endedBy, arcVars, hVars, clock, ioVars, engine, rlim>>
    /\ Fixed

\* solver.eliminate(true)
Eliminate ==
    /\ pc = "eliminate"
    /\ calls' = Append(calls, "eliminate")
    /\ pc' = "lock_simplified"
    /\ UNCHANGED <<result, exit_code, endedBy, arcVars, hVars, clock, ioVars, engine, rlim>>
    /\ Fixed

\* .simplified()
Simplified ==
    /\ pc = "simplified"
    /\ stat' = StatSimplified(stat, clock)
    /\ mutex' = "none"
    /\ pc' = "okay"
    /\ UNCHANGED <<result, exit_code, endedBy, strong, hVars, clock, ioVars, engVars, rlim>>
    /\ Fixed

\* a feasibility check that falls through to the solve call
AfterOkay_FallThrough(ok) == "solve"

\* glucose.rs 404..410: the infeasible branch returns, the other goes on
AfterOkay(ok) == IF ~ok THEN "lock_print_unsat" ELSE "solve"

\* if !solver.okay() { ... }: the engine answers
Okay ==
    /\ pc = "okay"
    /\ calls' = Append(calls, "okay")
    /\ \E ok \in BOOLEAN :
          /\ engine' = [engine EXCEPT !.okay = ok]
          /\ pc' = AfterOkay(ok)
    /\ UNCHANGED <<result, exit_code, endedBy, arcVars, hVars, clock, ioVars, rlim>>
    /\ Fixed

\* glucose.rs 405: stat.lock().unwrap().print() on the infeasible path
MainPrintUnsat ==
    /\ pc = "print_unsat"
    /\ \E mem \in MemoryOfRun :
          LET r == StatPrint(stat, clock, mem, StatChannel(cmd))
          IN stat' = r.stat /\ console' = console \o r.lines
    /\ mutex' = "none"
    /\ pc' = "say_unsat"
    /\ UNCHANGED <<result, exit_code, endedBy, strong, hVars, clock, out, outOpen, engVars, rlim>>
    /\ Fixed

\* glucose.rs 406: println!("UNSATISFIABLE")
SayUnsat ==
    /\ pc = "say_unsat"
    /\ console' = Append(console, Line("stdout", "", "UNSATISFIABLE", 0))
    /\ pc' = "write_unsat"
    /\ UNCHANGED <<result, exit_code, endedBy, arcVars, hVars, clock, out, outOpen, engVars, rlim>>
    /\ Fixed

\* glucose.rs 407..409: writeln!(output, "UNSAT")?; return Ok(20)
WriteUnsat ==
    /\ pc = "write_unsat"
    /\ \/ /\ out' = Append(out, Tok("UNSAT", 0, TRUE))
          /\ result' = Ok(ExitUnsat)
       \/ /\ UNCHANGED out
          /\ result' = Err("write")
    /\ pc' = "drop"
    /\ UNCHANGED <<exit_code, endedBy, arcVars, hVars, clock, console, outOpen, engVars, rlim>>
    /\ Fixed

\* what the engine will answer to vars() and model_value(v) once `ret` is
\* status r: a model over its declared variables when r is Satisfiable
EngineAnswers(r) ==
    IF r = "Satisfiable"
    THEN \E n \in 0..MaxVars : \E m \in [1..n -> BOOLEAN] :
            engine' = [engine EXCEPT !.ret = r, !.nvars = n, !.model = m]
    ELSE engine' = [engine EXCEPT !.ret = r]

\* glucose.rs 411..414: let mut ret = Default::default();
\* if self.solve { ret = solver.solve_limited(&[], true, false); }
Solve ==
    /\ pc = "solve"
    /\ IF arg.solve
       THEN /\ calls' = Append(calls, "solve")
            /\ \E r \in RawStatus : EngineAnswers(r)
       ELSE /\ UNCHANGED calls
            /\ EngineAnswers(DefaultStatus)
    /\ pc' = "lock_solved"
    /\ UNCHANGED <<result, exit_code, endedBy, arcVars, hVars, clock, ioVars, rlim>>
    /\ Fixed

\* .solved()
Solved ==
    /\ pc = "solved"
    /\ stat' = StatSolved(stat, clock)
    /\ mutex' = "none"
    /\ pc' = "lock_print"
    /\ UNCHANGED <<result, exit_code, endedBy, strong, hVars, clock, ioVars, engVars, rlim>>
    /\ Fixed

\* glucose.rs 416: stat.lock().unwrap().print()
MainPrint ==
    /\ pc = "print"
    /\ \E mem \in MemoryOfRun :
          LET r == StatPrint(stat, clock, mem, StatChannel(cmd))
          IN stat' = r.stat /\ console' = console \o r.lines
    /\ mutex' = "none"
    /\ pc' = "say_result"
    /\ UNCHANGED <<result, exit_code, endedBy, strong, hVars, clock, out, outOpen, engVars, rlim>>
    /\ Fixed

\* the status word and the exit code of a RawStatus (glucose.rs 417..441)
Word(r) ==
    CASE r = "Satisfiable" -> "SATISFIABLE"
      [] r = "Unsatisfiable" -> "UNSATISFIABLE"
      [] r = "Unknown" -> "UNKNOWN"

Token(r) ==
    CASE r = "Satisfiable" -> "SAT"
      [] r = "Unsatisfiable" -> "UNSAT"
      [] r = "Unknown" -> "UNKNOWN"

\* a mapping that returns the Unknown code for Unsatisfiable
Code_Swapped(r) ==
    CASE r = "Satisfiable" -> ExitSat
      [] r = "Unsatisfiable" -> ExitUnknown
      [] r = "Unknown" -> ExitUnknown

Code(r) ==
    CASE r = "Satisfiable" -> ExitSat
      [] r = "Unsatisfiable" -> ExitUnsat
      [] r = "Unknown" -> ExitUnknown

\* match ret { .. => println!("c SATISFIABLE") | "c UNSATISFIABLE" | "c UNKNOWN"
SayResult ==
    /\ pc = "say_result"
    /\ console' = Append(console, Line("stdout", "c ", Word(engine.ret), 0))
    /\ pc' = "write_token"
    /\ UNCHANGED <<result, exit_code, endedBy, arcVars, hVars, clock, out, outOpen, engVars, rlim>>
    /\ Fixed

\* writeln!(output, "SAT" | "UNSAT" | "UNKNOWN")?; the last two then return
WriteToken ==
    /\ pc = "write_token"
    /\ \/ /\ out' = Append(out, Tok(Token(engine.ret), 0, TRUE))
          /\ IF engine.ret = "Satisfiable"
             THEN /\ pc' = IF engine.nvars = 0 THEN "write_zero" ELSE "write_lit"
                  /\ UNCHANGED result
             ELSE pc' = "drop" /\ result' = Ok(Code(engine.ret))
       \/ /\ UNCHANGED out
          /\ pc' = "drop" /\ result' = Err("write")
    /\ UNCHANGED <<exit_code, endedBy, arcVars, hVars, clock, console, outOpen, engVars, rlim>>
    /\ Fixed

\* the variable the try_for_each closure is at: one literal was written for
\* each variable before it
NextVar == Len(out)

\* a literal with the sign of the model value reversed
Literal_Flipped(v) == IF engine.model[v] THEN 0 - v ELSE v

\* the literal written for variable v (glucose.rs 422..426)
Literal(v) == IF engine.model[v] THEN v ELSE 0 - v

\* (0..solver.vars()).map(|v| v + 1).try_for_each(|v| write!(output, ..))?
WriteLit ==
    /\ pc = "write_lit"
    /\ \/ /\ out' = Append(out, Tok("lit", Literal(NextVar), FALSE))
          /\ pc' = IF NextVar = engine.nvars THEN "write_zero" ELSE "write_lit"
          /\ UNCHANGED result
       \/ /\ UNCHANGED out
          /\ pc' = "drop" /\ result' = Err("write")
    /\ UNCHANGED <<exit_code, endedBy, arcVars, hVars, clock, console, outOpen, engVars, rlim>>
    /\ Fixed

\* writeln!(output, "0")?; return Ok(0)
WriteZero ==
    /\ pc = "write_zero"
    /\ \/ /\ out' = Append(out, Tok("0", 0, TRUE))
          /\ result' = Ok(Code("Satisfiable"))
       \/ /\ UNCHANGED out
          /\ result' = Err("write")
    /\ pc' = "drop"
    /\ UNCHANGED <<exit_code, endedBy, arcVars, hVars, clock, console, outOpen, engVars, rlim>>
    /\ Fixed

\* run returns: its locals are dropped, `stat` among them
Return ==
    /\ pc = "drop"
    /\ \E mem \in MemoryOfRun : DropArc(mem)
    /\ pc' = "main_match"
    /\ UNCHANGED <<result, exit_code, endedBy, mutex, hVars, clock, out, outOpen, engVars, rlim>>
    /\ Fixed

\* main.rs 33..36: Ok(code) => exit(code), Err(e) => eprintln!("c ERROR: {}", e)
\* and main returns
MainMatch ==
    /\ pc = "main_match"
    /\ IF result.kind = "Ok"
       THEN /\ exit_code' = result.code
            /\ UNCHANGED console
       ELSE /\ console' = Append(console, Line("stderr", "c ", "ERROR:", 0))
            /\ exit_code' = ExitMainReturned
    /\ endedBy' = "main"
    /\ pc' = "done"
    /\ UNCHANGED <<result, arcVars, hVars, clock, out, outOpen, engVars, rlim>>
    /\ Fixed

\* an unwrap() panicked in run: the stack unwinds, dropping run's locals, and
\* the process ends with the panic exit code
Unwind ==
    /\ pc = "unwind"
    /\ \E mem \in MemoryOfRun : DropArc(mem)
    /\ exit_code' = ExitPanic
    /\ endedBy' = "panic"
    /\ pc' = "done"
    /\ UNCHANGED <<result, mutex, hVars, clock, out, outOpen, engVars, rlim>>
    /\ Fixed

\* ------------------------------------------------------- the ctrlc thread
\* SIGINT while the handler thread waits: the thread wakes up
SigInt ==
    /\ Running /\ hpc = "wait"
    /\ interrupts < MaxInterrupts
    /\ interrupts' = interrupts + 1
    /\ sigSolve' = (sigSolve \/ pc = "solve")
    /\ hpc' = "run"
    /\ UNCHANGED <<pc, result, exit_code, endedBy, arcVars, hret, clock, ioVars, engVars, rlim>>
    /\ Fixed

\* SIGINT while no handler is installed: the default disposition ends the
\* process (the shell reports 128 + SIGINT)
SigDefault ==
    /\ Running /\ hpc = "none"
    /\ interrupts < MaxInterrupts
    /\ interrupts' = interrupts + 1
    /\ sigSolve' = (sigSolve \/ pc = "solve")
    /\ exit_code' = 128 + 2
    /\ endedBy' = "signal"
    /\ pc' = "done"
    /\ UNCHANGED <<result, arcVars, hpc, hret, clock, ioVars, engVars, rlim>>
    /\ Fixed

\* if let Ok(mut stat) = cloned_stat.lock()
HandlerLock ==
    /\ Running /\ hpc = "run"
    /\ mutex = "none"
    /\ mutex' = "handler"
    /\ hpc' = "locked"
    /\ UNCHANGED <<pc, result, exit_code, endedBy, stat, strong, hret, interrupts, sigSolve,
                   clock, ioVars, engVars, rlim>>
    /\ Fixed

\* stat.print() in the handler
HandlerPrint ==
    /\ Running /\ hpc = "locked"
    /\ \E mem \in MemoryOfRun :
          LET r == StatPrint(stat, clock, mem, StatChannel(cmd))
          IN stat' = r.stat /\ console' = console \o r.lines /\ hret' = r.ret
    /\ hpc' = "printed"
    /\ UNCHANGED <<pc, result, exit_code, endedBy, strong, mutex, interrupts, sigSolve, clock,
                   out, outOpen, engVars, rlim>>
    /\ Fixed

\* a handler that annotates whatever print() returned
HandlerAnnotation_Always(printed_now) ==
    <<Line("stdout", "c ", "Interrupted", 0)>>

\* if stat.print() { println!("c Interrupted"); }
HandlerAnnotation(printed_now) ==
    IF printed_now THEN <<Line("stdout", "c ", "Interrupted", 0)>> ELSE <<>>

\* glucose.rs 385: std::process::exit(30) ends the handler; minisat.rs
\* 267..273 has no exit, its handler returns
HandlerExits(c) == c = "glucose"

\* the rest of the handler closure, after print() returned
HandlerFinish ==
    /\ Running /\ hpc = "printed"
    /\ console' = console \o HandlerAnnotation(hret)
    /\ IF HandlerExits(cmd)
       THEN /\ exit_code' = ExitInterrupted
            /\ endedBy' = "handler"
            /\ pc' = "done"
            /\ UNCHANGED <<mutex, hpc>>
       ELSE /\ mutex' = "none"
            /\ hpc' = "wait"
            /\ UNCHANGED <<pc, exit_code, endedBy>>
    /\ UNCHANGED <<result, stat, strong, hret, interrupts, sigSolve, clock, out, outOpen,
                   engVars, rlim>>
    /\ Fixed

Next ==
    \/ Start
    \/ NewStat
    \/ OpenOutput
    \/ SetOpt
    \/ SetHandler
    \/ NewSolver
    \/ LimitTime
    \/ LimitMemory
    \/ Pre
    \/ MainLock
    \/ StartLog
    \/ OpenInput
    \/ Parse
    \/ Parsed
    \/ Eliminate
    \/ Simplified
    \/ Okay
    \/ MainPrintUnsat
    \/ SayUnsat
    \/ WriteUnsat
    \/ Solve
    \/ Solved
    \/ MainPrint
    \/ SayResult
    \/ WriteToken
    \/ WriteLit
    \/ WriteZero
    \/ Return
    \/ MainMatch
    \/ Unwind
    \/ SigInt
    \/ SigDefault
    \/ HandlerLock
    \/ HandlerPrint
    \/ HandlerFinish

Spec == Init /\ [][Next]_vars

\* the steps of the main thread
MainStep ==
    \/ Start \/ NewStat \/ OpenOutput \/ SetOpt \/ SetHandler \/ NewSolver
    \/ LimitTime \/ LimitMemory \/ Pre \/ MainLock \/ StartLog \/ OpenInput
    \/ Parse \/ Parsed \/ Eliminate \/ Simplified \/ Okay \/ MainPrintUnsat
    \/ SayUnsat \/ WriteUnsat \/ Solve \/ Solved \/ MainPrint \/ SayResult
    \/ WriteToken \/ WriteLit \/ WriteZero \/ Return \/ MainMatch \/ Unwind

\* sessions run without --cpu-lim and --mem-lim: limit_time and limit_memory
\* return at once and take no part in the locking
InitFair == Init /\ arg.cpu_lim = 0 /\ arg.mem_lim = 0

\* the session under a scheduler that lets the main thread run whenever it
\* can, and hands the Mutex to the waiting handler when it stays free
SpecFair == InitFair /\ [][Next]_vars /\ WF_vars(MainStep) /\ WF_vars(HandlerLock)

\* the resource a limiter call works on
ResOf(op) == IF op = "limit_time" THEN "CPU" ELSE "AS"
OtherRes(res) == IF res = "CPU" THEN "AS" ELSE "CPU"
LimitCalls == {"limit_time", "limit_memory"}

\* ---------------------------------------------------------------- claims

\* the process has ended
Done == pc = "done"

\* a write!/writeln! to OUTPUT failed and run propagated the error
WriteFailed == result.kind = "Err" /\ result.why = "write"

\* the result tokens in OUTPUT
ResultWords == {"SAT", "UNSAT", "UNKNOWN"}
ResultTokens == {i \in DOMAIN out : out[i].text \in ResultWords}

\* OUTPUT holds exactly one result token, at its start, and the process
\* ended with the exit code of that token
OneTokenMatchingExit ==
    /\ Cardinality(ResultTokens) = 1
    /\ 1 \in ResultTokens
    /\ out[1].text = "SAT" => exit_code = ExitSat /\ engine.ret = "Satisfiable"
    /\ out[1].text = "UNSAT" =>
          exit_code = ExitUnsat /\ (engine.ret = "Unsatisfiable" \/ ~engine.okay)
    /\ out[1].text = "UNKNOWN" => exit_code = ExitUnknown /\ engine.ret = "Unknown"

C2_StatsOnEveryExit ==
    (Done /\ result.kind = "Err" /\ result.why \in {"input", "parse"})
    => StatsBlocks = 1

\* the handler closure ran to its end: it ended the process, or it returned
\* and the ctrlc thread waits for the next SIGINT
HandlerCompleted == endedBy = "handler" \/ (interrupts > 0 /\ hpc = "wait")

\* C3 as stated, for the interleavings in which the handler ran to its end
\* and no write failed: when a SIGINT was delivered while the solve call was
\* in flight, the process ends with exactly one statistics block and exit
\* code 30.
C3_InterruptMidSolve ==
    (Done /\ sigSolve /\ HandlerCompleted /\ ~WriteFailed)
    => (StatsBlocks = 1 /\ exit_code = ExitInterrupted)

\* C5: the handler's print() returns "printed now" exactly when no print
\* came before it, and emits nothing otherwise; the handler then emits the
\* "c Interrupted" annotation if and only if print() returned "printed now".
C5_AnnotateIffFirstPrint ==
    [][/\ (hpc = "locked" /\ hpc' # "locked") => hpc' = "printed"
       /\ (hpc = "locked" /\ hpc' = "printed") =>
            /\ hret' = ~stat.printed
            /\ stat.printed => console' = console
            /\ ~stat.printed => StatsBlocks' = StatsBlocks + 1
            /\ Annotations' = Annotations
       /\ (hpc = "printed" /\ (hpc' = "wait" \/ endedBy' = "handler")) =>
            /\ Annotations' = Annotations + (IF hret THEN 1 ELSE 0)
            /\ StatsBlocks' = StatsBlocks]_vars

\* C5: a glucose handler ran after the main flow had flushed: one block, no
\* annotation, and the handler ended the process
C5_Witness ==
    /\ cmd = "glucose" /\ Done /\ hpc = "printed" /\ ~hret
    /\ endedBy = "handler" /\ exit_code = ExitInterrupted
    /\ StatsBlocks = 1 /\ Annotations = 0

\* C6 as stated, for the engine's parse call: when it returned an error and
\* main ended the process, the exit code is non-zero and none of 0, 20, 30.
C6_ErrorExitCode ==
    (Done /\ endedBy = "main" /\ result.kind = "Err" /\ result.why = "parse")
    => (exit_code # 0 /\ exit_code \notin {ExitSat, ExitUnsat, ExitUnknown})

\* the engine reported infeasibility at the okay() check
Infeasible == (\E i \in DOMAIN calls : calls[i] = "okay") /\ ~engine.okay
SolveCalled == \E i \in DOMAIN calls : calls[i] = "solve"

C4_PrintIdempotent ==
    [][/\ lastOp' = "print" =>
            IF stat.printed
            THEN /\ stat' = stat
                 /\ console' = console
                 /\ lastRes' = "already_printed"
            ELSE /\ stat'.printed
                 /\ StatsBlocks' = StatsBlocks + 1
                 /\ lastRes' = "printed_now"
       /\ stat.printed => stat'.printed]_vars

\* C4: a second print, after every phase was recorded and one block emitted
C4_Witness ==
    /\ lastOp = "print" /\ lastRes = "already_printed"
    /\ StatsBlocks = 1 /\ stat.solve_time.some /\ stat.printed

\* C8: a nonzero request above the current soft limit is rejected and both
\* limits of the platform stay as they were.
C8_RaiseRejected ==
    [][(/\ lastOp' \in LimitCalls
        /\ lastArg' # 0
        /\ rlim[ResOf(lastOp')].cur < lastArg')
       => (lastRes' = "Err" /\ rlim' = rlim)]_vars

\* C8: limit_time asked for more than the soft limit on unix, and refused
C8_Witness ==
    /\ platform = "unix" /\ lastOp = "limit_time" /\ lastRes = "Err"
    /\ lastArg > rlim["CPU"].cur /\ lastArg <= rlim["CPU"].max
    /\ lastSys = <<"getrlimit">>

\* C9: a request of 0 returns Ok without reading or writing a platform
\* limit, on unix and on windows.
C9_ZeroIsNoOp ==
    [][(lastOp' \in LimitCalls /\ lastArg' = 0)
       => (lastRes' = "Ok" /\ lastSys' = <<>> /\ rlim' = rlim)]_vars

\* C9: limit_memory(0) answered on a platform with a finite soft limit
C9_Witness ==
    /\ lastOp = "limit_memory" /\ lastArg = 0 /\ lastRes = "Ok"
    /\ platform = "unix" /\ rlim["AS"].cur < MaxRlim

\* C10: on unix a nonzero request v not above the soft limit succeeds, makes
\* v the soft limit of that resource, keeps its hard limit and keeps the
\* other resource's limits.
C10_TightenInstalls ==
    [][(/\ platform = "unix"
        /\ lastOp' \in LimitCalls
        /\ lastArg' # 0
        /\ lastArg' <= rlim[ResOf(lastOp')].cur)
       => (/\ lastRes' = "Ok"
           /\ rlim'[ResOf(lastOp')] =
                 [cur |-> lastArg', max |-> rlim[ResOf(lastOp')].max]
           /\ rlim'[OtherRes(ResOf(lastOp'))] = rlim[OtherRes(ResOf(lastOp'))])]_vars

\* C10: limit_time lowered the soft limit strictly below the hard limit
C10_Witness ==
    /\ platform = "unix" /\ lastOp = "limit_time" /\ lastRes = "Ok"
    /\ lastArg # 0 /\ rlim["CPU"].cur = lastArg /\ rlim["CPU"].cur < rlim["CPU"].max
    /\ lastSys = <<"getrlimit", "setrlimit">>

\* C11: over any sequence of limit_time and limit_memory calls the soft
\* limit of each resource never increases and never exceeds its hard limit,
\* and the hard limit never changes.
C11_TighteningRatchet ==
    [][\A res \in Resources :
          /\ rlim'[res].cur <= rlim[res].cur
          /\ rlim'[res].cur <= rlim'[res].max
          /\ rlim'[res].max = rlim[res].max]_vars

\* C11: both resources were tightened below their hard limit, the memory
\* ceiling last
C11_Witness ==
    /\ platform = "unix" /\ lastOp = "limit_memory" /\ lastRes = "Ok"
    /\ lastArg = 1 /\ lastSys = <<"getrlimit", "setrlimit">>
    /\ rlim["AS"] = [cur |-> 1, max |-> MaxRlim]
    /\ rlim["CPU"].cur < rlim["CPU"].max

\* "c WARNING: ..." lines on the console
Warnings == Cardinality({i \in DOMAIN console : console[i].text = "WARNING:"})

\* the limiter call main is about to make fails: a nonzero ceiling above the
\* soft limit in force
CpuCeilingFails == arg.cpu_lim # 0 /\ rlim["CPU"].cur < arg.cpu_lim
MemCeilingFails == arg.mem_lim # 0 /\ rlim["AS"].cur < arg.mem_lim

\* C12 as stated, in either subcommand: main leaves each limiter call for
\* the next statement of run whatever the call returned; when the call
\* failed, one warning line is printed; and the memory ceiling is installed
\* when the platform accepts it, also after the CPU ceiling failed.
C12_LimitFailureWarns ==
    [][/\ (pc = "limit_time" /\ pc' # pc /\ endedBy' = "none") =>
             /\ pc' = "limit_memory"
             /\ Warnings' = Warnings + (IF CpuCeilingFails THEN 1 ELSE 0)
       /\ (pc = "limit_memory" /\ pc' # pc /\ endedBy' = "none") =>
             /\ pc' = "pre"
             /\ Warnings' = Warnings + (IF MemCeilingFails THEN 1 ELSE 0)
             /\ (arg.mem_lim # 0 /\ ~MemCeilingFails) =>
                    rlim'["AS"].cur = arg.mem_lim]_vars

\* C13: the cursor of the console-backed reader stays within the buffered
\* region, 0 <= pos <= buffer.len(), whatever reads and seeks were made and
\* whether they succeeded.
C13_CursorInBuffer == 0 <= pos /\ pos <= Len(buffer)

\* C13: a seek past the buffered data was refused with the cursor inside a
\* buffer holding the whole stream
C13_Witness ==
    /\ rret.op = "seek" /\ rret.whence = "Start" /\ rret.ret = "InvalidInput"
    /\ rret.arg > Len(buffer)
    /\ Len(buffer) = MaxStream /\ 0 < pos /\ pos < Len(buffer)

\* the position a seek asks for; SeekFrom::End counts from the end of the
\* buffered data
SeekTarget(whence, offset) ==
    CASE whence = "Start" -> offset
      [] whence = "Current" -> pos + offset
      [] whence = "End" -> Len(buffer) + offset

\* C14 as stated: a seek to a target beyond the buffered length fails with
\* InvalidInput, and a seek to a target in [0, buffered length] succeeds and
\* moves the cursor there, for Start, Current and End alike.
C14_SeekWithinBuffer ==
    [][rret'.op = "seek" =>
          LET target == SeekTarget(rret'.whence, rret'.arg)
          IN /\ target > Len(buffer) =>
                   (rret'.ret = "InvalidInput" /\ pos' = pos)
             /\ (0 <= target /\ target <= Len(buffer)) =>
                   (rret'.ret = "Ok" /\ pos' = target /\ rret'.val = target)]_vars

\* C15: what the reads have returned since the cursor was last set to a
\* position p (by a seek, or 0 at the start) is exactly the console's bytes
\* from p onward, in order, the cursor is where they end, and when a read
\* reported end of stream they run to the last byte of the console.
C15_ReplayExact ==
    /\ replay.data =
          SubSeq(inner.data, replay.from + 1, replay.from + Len(replay.data))
    /\ pos = replay.from + Len(replay.data)
    /\ replay.eof => replay.from + Len(replay.data) = Len(inner.data)

\* C15: after a prefix of two bytes was read, a seek back to 0 and reads to
\* end of stream returned the whole three-byte stream, two bytes of it
\* replayed from the buffer
C15_Witness ==
    /\ Len(inner.data) = MaxStream
    /\ replay.from = 0 /\ replay.eof /\ replay.buffered = MaxStream - 1
    /\ replay.data = inner.data

\* C16: the buffer is at every moment the bytes drawn from the OS stream so
\* far; a call draws from the OS stream only in a read made with the cursor
\* at the end of the buffer, and then appends exactly the bytes it returned;
\* no other call changes the buffer.
C16_BufferAppendOnly ==
    [][/\ buffer' = SubSeq(inner'.data, 1, inner'.at)
       /\ inner'.data = inner.data
       /\ (rret'.pulled \/ inner' # inner) => (rret'.op = "read" /\ pos = Len(buffer))
       /\ buffer' = buffer \o (IF rret'.pulled THEN rret'.data ELSE <<>>)]_vars

\* C16: a pull appended one byte to a buffer that already held the rest of
\* the stream
C16_Witness ==
    /\ rret.op = "read" /\ rret.pulled /\ rret.ret = "Ok" /\ rret.val = 1
    /\ Len(buffer) = MaxStream /\ buffer = inner.data

\* s occurs in msg as a contiguous run
Contains(msg, s) ==
    \E i \in 1..(Len(msg) + 1) : SubSeq(msg, i, i + Len(s) - 1) = s

\* s starts with one or more letters followed by ':'
HasScheme(s) ==
    \E i \in 2..Len(s) : s[i] = ":" /\ \A j \in 1..(i - 1) : s[j] # ":"

\* C17: parse_path(s) is the Url variant whenever s parses as a URL, whether
\* or not a file named s exists; otherwise the FilePath variant holding s
\* when s exists at the time of the call; otherwise an error whose message
\* contains s. A path it returns is always s itself.
C17_ParsePathOrder ==
    [][(pcall'.op = "parse_path" /\ fs' = fs) =>
          LET s == pcall'.s
              res == pcall'.res
          IN /\ HasScheme(s) =>
                   /\ res.kind = "Url"
                   /\ res.url.scheme \o <<":">> \o res.url.rest = s
             /\ (~HasScheme(s) /\ s \in fs) => (res.kind = "FilePath" /\ res.path = s)
             /\ (~HasScheme(s) /\ s \notin fs) =>
                   (res.kind = "Err" /\ Contains(res.msg, s))
             /\ res.kind = "FilePath" => res.path = s]_vars

\* C17: a string that parses as a URL and also names an existing file was
\* resolved to the Url variant
C17_Witness ==
    /\ pcall.op = "parse_path" /\ pcall.s = <<"h", ":", "a">>
    /\ pcall.s \in fs /\ pcall.res.kind = "Url"

\* C18 as stated, in either subcommand: with a flag outside its validated
\* range the run never creates or truncates the OUTPUT file, sets no engine
\* option, installs no interrupt handler, changes no resource limit, and
\* returns an error.
C18_InvalidFlagsAbort ==
    ~Validate(arg) =>
        /\ outOpen # "file" /\ out = <<>>
        /\ calls = <<>>
        /\ hpc = "none"
        /\ rlim = RlimDefault
        /\ (Done /\ endedBy = "main") => result.kind = "Err"

\* C19 as stated: when the input source could not be opened or fetched, no
\* resource ceiling has been installed, no engine option applied and no
\* engine instance set up.
C19_OpenFailureBeforeSetup ==
    (result.kind \in {"Err", "Panic"} /\ result.why = "input") =>
        /\ rlim = RlimDefault
        /\ \A i \in DOMAIN calls : calls[i] \notin {"set_opt", "new", "setrlimit"}

\* the informational and timing lines on the console: all but the error
\* report of main
InfoLines == {i \in DOMAIN console : console[i].text # "ERROR:"}

\* C20 as stated: every informational or timing line of a session is written
\* to standard output and starts with "c ".
C20_InfoLinesPrefixed ==
    \A i \in InfoLines : console[i].ch = "stdout" /\ console[i].prefix = "c "

\* the SAT block of the engine's model: "SAT", one signed literal per
\* declared variable in the order 1..n, then the terminating 0
SatBlock ==
    <<Tok("SAT", 0, TRUE)>>
    \o [i \in 1..engine.nvars |->
           Tok("lit", IF engine.model[i] THEN i ELSE 0 - i, FALSE)]
    \o <<Tok("0", 0, TRUE)>>

\* C21: on a Satisfiable outcome OUTPUT is "SAT" followed by the line of
\* exactly n signed literals in the order 1..n, +i when the model assigns i
\* true and -i when false, closed by 0 and a newline; while that block is
\* being written OUTPUT is a prefix of it.
C21_ModelLine ==
    /\ (result.kind = "Ok" /\ result.code = ExitSat) => out = SatBlock
    /\ (engine.ret = "Satisfiable" /\ out # <<>>) =>
          (Len(out) <= Len(SatBlock) /\ out = SubSeq(SatBlock, 1, Len(out)))

\* C21: a session ended on a model of MaxVars variables with both signs in it
C21_Witness ==
    /\ Done /\ exit_code = ExitSat /\ result.kind = "Ok"
    /\ engine.ret = "Satisfiable" /\ engine.nvars = MaxVars
    /\ engine.model[1] /\ ~engine.model[MaxVars]
    /\ Len(out) = MaxVars + 2

\* the phase fields of a Stat
Phases(s) == <<s.parsed_time, s.simplified_time, s.solve_time>>

\* C22: in a session solve_time is set only if simplified_time is, and
\* simplified_time only if parsed_time is; a phase field changes only in a
\* step of the main flow at its parsed / simplified / solved call, made
\* while main holds the lock, and no step of the interrupt handler changes
\* a phase field.
C22_PhaseOrder ==
    [][/\ stat'.solve_time.some => stat'.simplified_time.some
       /\ stat'.simplified_time.some => stat'.parsed_time.some
       /\ Phases(stat') # Phases(stat) =>
             /\ mutex = "main"
             /\ pc \in {"parsed", "simplified", "solved"} /\ pc' # pc
             /\ hpc' = hpc
       /\ (hpc' # hpc \/ hret' # hret) => Phases(stat') = Phases(stat)]_vars

\* C22: the handler printed between the parsed and the simplified phase
C22_Witness ==
    /\ hpc = "printed" /\ hret /\ stat.printed
    /\ stat.parsed_time.some /\ ~stat.simplified_time.some

\* the potentially long-running engine calls
LongCalls == {"parse", "eliminate", "solve"}

\* times the engine options were applied
SetOptCalls == Cardinality({i \in DOMAIN calls : calls[i] = "set_opt"})

\* C23: the engine options are applied while no handler is installed and
\* are applied once, never again afterwards; the input fetch and every
\* parse, elimination and solve call start with the handler installed.
C23_ArmingOrder ==
    [][/\ SetOptCalls' # SetOptCalls => (hpc = "none" /\ SetOptCalls = 0)
       /\ (hpc # "none" \/ Len(calls) > 0) => SetOptCalls' = 1
       /\ (Len(calls') > Len(calls) /\ calls'[Len(calls')] \in LongCalls) =>
             hpc # "none"
       /\ (pc = "open_input" /\ pc' # pc) => hpc # "none"]_vars

\* C23: the solve call was made under an installed handler, after one
\* application of the options
C23_Witness ==
    /\ SolveCalled /\ hpc = "wait" /\ SetOptCalls = 1
    /\ calls[1] = "set_opt" /\ arg.input = "url"

\* an elimination pass was invoked after the parse call and before
\* position n of the engine calls
ElimAfterParseBefore(n) ==
    \E k, j \in 1..(n - 1) : k < j /\ calls[k] = "parse" /\ calls[j] = "eliminate"

SolveTimeLines == {i \in DOMAIN console : console[i].text = "Solve time:"}

\* C25 as stated, for the solve phase: the statistics carry a solve-time
\* line only in a session that invoked the engine's solve call.
C25_SolveLineOnlyIfSolved == SolveTimeLines # {} => SolveCalled

\* C26: a handler invocation waiting for the Stat lock eventually holds it
\* or the process has ended, and the main flow makes its input open, parse,
\* elimination and solve calls without holding the lock.
C26_HandlerNotBlocked ==
    /\ (hpc = "run") ~> (hpc # "run" \/ Done)
    /\ [][((Len(calls') > Len(calls) /\ calls'[Len(calls')] \in LongCalls)
            \/ (pc = "open_input" /\ pc' # pc))
           => mutex # "main"]_vars

\* C26: the handler has acquired the Stat lock while the main thread stands
\* before one of its own lock() calls
C26_Witness ==
    /\ hpc = "locked" /\ mutex = "handler" /\ pc \in LockSites

\* C27: in an execution with no interrupt delivered, "c Interrupted" is
\* never emitted, whichever way run returns.
C27_NoInterruptNoAnnotation ==
    interrupts = 0 => Annotations = 0

\* the exit code assigned to a result word
ExitOf(w) ==
    CASE w = "SAT" -> ExitSat
      [] w = "UNSAT" -> ExitUnsat
      [] OTHER -> ExitUnknown

\* OUTPUT holds one whole result: the SAT block, or the UNSAT or UNKNOWN line
CompleteResult ==
    /\ Len(out) >= 1
    /\ out[1].text \in ResultWords
    /\ IF out[1].text = "SAT" THEN out = SatBlock ELSE Len(out) = 1

\* C28: when the process has ended, by main or by the interrupt handler,
\* OUTPUT is empty or holds exactly one complete result, and then the exit
\* code is the one of that result.
C28_WholeResultAtExit ==
    Done => (out = <<>> \/ (CompleteResult /\ exit_code = ExitOf(out[1].text)))

\* --mem-lim counts megabytes (glucose.rs 283), RLIMIT_AS counts bytes
BytesOfMegabytes(m) == m * 2^20

\* C29: a requested memory limit of M > 0 megabytes is compared with the soft
\* limit in force, and installed, as M * 2^20 bytes; a requested CPU limit of
\* S seconds is installed as S.
C29_CeilingUnits ==
    [][/\ (pc = "limit_memory" /\ pc' # pc /\ endedBy' = "none" /\ arg.mem_lim > 0) =>
             IF rlim["AS"].cur < BytesOfMegabytes(arg.mem_lim)
             THEN rlim' = rlim
             ELSE rlim'["AS"].cur = BytesOfMegabytes(arg.mem_lim)
       /\ (pc = "limit_time" /\ pc' # pc /\ endedBy' = "none" /\ arg.cpu_lim > 0) =>
             IF rlim["CPU"].cur < arg.cpu_lim
             THEN rlim' = rlim
             ELSE rlim'["CPU"].cur = arg.cpu_lim]_vars

\* C30: a seek that does not return Ok leaves the cursor and the buffer as
\* they were and draws nothing from the OS stream, so any read made next
\* returns what it would have returned without the seek.
C30_FailedSeekNoEffect ==
    [][(rret'.op = "seek" /\ rret'.ret # "Ok") =>
          /\ pos' = pos /\ buffer' = buffer /\ inner' = inner
          /\ ~rret'.pulled
          /\ \A len \in 0..MaxBuf : \A got \in InnerReads(inner, len) :
                StdinReaderRead(inner', buffer', pos', len, got)
                    = StdinReaderRead(inner, buffer, pos, len, got)]_vars

\* C30: a seek past the buffered data was refused with the cursor inside a
\* buffer that holds unread bytes
C30_Witness ==
    /\ rret.op = "seek" /\ rret.ret = "InvalidInput" /\ rret.whence = "Current"
    /\ pos + rret.arg > Len(buffer)
    /\ 0 < pos /\ pos < Len(buffer)

====
